---- MODULE Spec2Model ----
(***************************************************************************)
(* Ramayana Digital Rishi, web client.                                     *)
(*                                                                         *)
(* State machine of the chat client: the useAgent hook (message list, busy *)
(* flag, current thought, the stream decode loop of sendMessage), the      *)
(* useHistory hook (sessions, active session) and the App handlers that    *)
(* connect them, together with the citation extraction of ChatMessage as   *)
(* an operator over texts.                                                 *)
(*                                                                         *)
(* A text is a sequence of tokens: a token is a punctuation character, a   *)
(* decimal digit or a whole word, so that every regular expression of the  *)
(* source matches at token boundaries.                                     *)
(***************************************************************************)
EXTENDS Integers, Sequences, FiniteSets, TLC

\* ------------------------------------------------------------------ bounds
\* Number of inputs of one run: queries accepted, sessions started from the
\* sidebar and records emitted by the server.
MaxInputs == 4

\* Number of pieces a rendered text is made of.
MaxPieces == 4
\* The greatest number of citations in a text of the citation runs.
MaxForms == 4

\* ------------------------------------------------------------ JS undefined
\* id of a message created without one (user, error and greeting messages)
NoId == 0
\* message.plan when no plan event was applied
NoPlan == <<>>
\* message.planCompletedIndex when no plan event was applied
NoIndex == -1
\* activeSessionId when no session is active (null)
NoSession == 0
\* selectedVerse when the detail view holds no verse (null)
NoVerse == [kanda |-> <<>>, sarga |-> <<>>, shloka |-> <<>>, translation |-> <<>>]

\* ------------------------------------------------------------------- texts
EmptyText == <<>>
GreetingText == <<"Namaste! I am the Digital Rishi. Ask me about Life, Strategy, or Dharma.">>
ConnectingText == <<"Connecting to the Archives...">>
InterruptedText == <<"Connection interrupted.">>

\* The queries a user types (handleSubmit rejects a blank input).
Queries == {<<"How", " ", "to", " ", "lead">>}

\* Contents the server sends in answer records: a snapshot and its extension.
AnswerA == <<"Final", " ", "text", " ">>
AnswerAB == <<"Final", " ", "text", " ", "[", "[", "Verse", ":", " ",
              "Bala", " ", "Kanda", " ", "4", ":", "5", "]", "]">>
AnswerTexts == {AnswerA, AnswerAB}

ThoughtTexts == {<<"Searching">>, <<"Filtering">>}

PlanSFS == <<"Search", "Filter", "Synthesize">>
PlanAlt == <<"Recall">>

\* Step indexes that step_detail records carry.
StepIndexes == {0, 1}

\* ----------------------------------------------------------------- records
\* A parsed stream record (the object `data` of the decode loop). Fields a
\* record type does not carry hold the undefined values.
Record(type, steps, completed, step_index, detail, content) ==
    [type |-> type, steps |-> steps, completed |-> completed,
     step_index |-> step_index, detail |-> detail, content |-> content]

PlanEvent(steps, completed) == Record("plan", steps, completed, NoIndex, "", EmptyText)
PlanUpdateEvent(completed) == Record("plan_update", NoPlan, completed, NoIndex, "", EmptyText)
StepDetailEvent(i, d) == Record("step_detail", NoPlan, NoIndex, i, d, EmptyText)
ThoughtEvent(t) == Record("thought", NoPlan, NoIndex, NoIndex, "", t)
AnswerEvent(c) == Record("answer", NoPlan, NoIndex, NoIndex, "", c)

\* The records the server emits.
PlanEvents == {PlanEvent(PlanSFS, 0), PlanEvent(PlanAlt, 2)}
PlanUpdateEvents == {PlanUpdateEvent(c) : c \in 1..3}
StepDetailEvents == {StepDetailEvent(0, "x"), StepDetailEvent(0, "y"), StepDetailEvent(1, "x")}
ThoughtEvents == {ThoughtEvent(t) : t \in ThoughtTexts}
AnswerEvents == {AnswerEvent(c) : c \in AnswerTexts}
Events == PlanEvents \cup PlanUpdateEvents \cup StepDetailEvents
            \cup ThoughtEvents \cup AnswerEvents

\* A field that a record lacks reads as undefined.
Undefined == <<"undefined">>
UndefinedDetail == "undefined"
\* A content that is JSON but no string: the number 42.
NumberContent == <<"42 (number)">>
AnswerNumber == AnswerEvent(NumberContent)

\* Records that are JSON but not what the server contract describes: an
\* answer without content, a thought without content, a plan without steps,
\* a step_detail without detail, and a record of an unknown type.
AnswerNoContent == AnswerEvent(Undefined)
ThoughtNoContent == ThoughtEvent(Undefined)
PlanNoSteps == PlanEvent(NoPlan, 0)
StepDetailNoDetail == StepDetailEvent(0, UndefinedDetail)
UnknownEvent == Record("status", NoPlan, NoIndex, NoIndex, "", EmptyText)
MalformedEvents ==
    {AnswerNoContent, ThoughtNoContent, PlanNoSteps, StepDetailNoDetail, UnknownEvent}

\* A line of the stream that is no JSON text.
NotJson == Record("not json", NoPlan, NoIndex, NoIndex, "", EmptyText)

\* The JSON text of a record cut in two by a chunk boundary: its first part
\* and its second part.
Front(e) == [front |-> e]
Back(e) == [back |-> e]

\* The line delimiter "\n" of the stream.
NL == Record("\n", NoPlan, NoIndex, NoIndex, "", EmptyText)

\* The chunks reader.read() returns for a set of records: the JSON text of
\* one record followed by the line delimiter.
ChunksOf(E) == {<<e, NL>> : e \in E}

\* ---------------------------------------------------------------- messages
NoDetails == [i \in StepIndexes |-> <<>>]

Message(id, role, content) ==
    [id |-> id, role |-> role, content |-> content, thoughts |-> <<>>,
     plan |-> NoPlan, planCompletedIndex |-> NoIndex, planDetails |-> NoDetails]

Greeting == Message(NoId, "assistant", GreetingText)

\* ------------------------------------------------------ citation extraction
Digits == {"0", "1", "2", "3", "4", "5", "6", "7", "8", "9"}
IsDigit(t) == t \in Digits
\* the characters \s matches
IsSpace(t) == t \in {" ", "\n"}

\* The letters of a word in lower case: the regular expressions that carry
\* the flag i compare words through it.
LowerCase(t) ==
    CASE t = "Bala" -> "bala" [] t = "Ayodhya" -> "ayodhya"
      [] t = "Aranya" -> "aranya" [] t = "Kishkindha" -> "kishkindha"
      [] t = "Sundara" -> "sundara" [] t = "Yuddha" -> "yuddha"
      [] t = "Uttara" -> "uttara" [] t = "Kanda" -> "kanda"
      [] t = "Sarga" -> "sarga" [] t = "Verse" -> "verse"
      [] OTHER -> t

kandaList == <<"Bala", "Ayodhya", "Aranya", "Kishkindha", "Sundara", "Yuddha", "Uttara">>

\* KANDA_MAP: the digit string of a canto index to the canto name.
KANDA_MAP(digits) ==
    CASE digits = <<"1">> -> <<"Bala", " ", "Kanda">>
      [] digits = <<"2">> -> <<"Ayodhya", " ", "Kanda">>
      [] digits = <<"3">> -> <<"Aranya", " ", "Kanda">>
      [] digits = <<"4">> -> <<"Kishkindha", " ", "Kanda">>
      [] digits = <<"5">> -> <<"Sundara", " ", "Kanda">>
      [] digits = <<"6">> -> <<"Yuddha", " ", "Kanda">>
      [] digits = <<"7">> -> <<"Uttara", " ", "Kanda">>
      [] OTHER -> <<>>

Min(S) == CHOOSE x \in S : \A y \in S : x <= y
Max(S) == CHOOSE x \in S : \A y \in S : x >= y

\* text[i], or the empty string where the text has no character (undefined)
Tok(text, i) == IF i \in 1..Len(text) THEN text[i] ELSE ""

\* The first position from i on that holds no white space / no digit.
RECURSIVE SkipSpaces(_, _)
SkipSpaces(text, i) ==
    IF IsSpace(Tok(text, i)) THEN SkipSpaces(text, i + 1) ELSE i

RECURSIVE SkipDigits(_, _)
SkipDigits(text, i) ==
    IF IsDigit(Tok(text, i)) THEN SkipDigits(text, i + 1) ELSE i

IsCanto(t) == \E k \in 1..Len(kandaList) : LowerCase(t) = LowerCase(kandaList[k])

\* (variant: a marker whose fields are divided by spaces)
MarkerSpaced(cleanKanda, sarga, shloka) ==
    <<"[", "[", "CIT", ":">> \o cleanKanda \o <<" ">> \o sarga \o <<" ">>
        \o shloka \o <<"]", "]">>

\* The internal marker [[CIT:kanda|sarga|shloka]].
Marker(cleanKanda, sarga, shloka) ==
    <<"[", "[", "CIT", ":">> \o cleanKanda \o <<"|">> \o sarga \o <<"|">>
        \o shloka \o <<"]", "]">>

ClosesAt(text, e) == Tok(text, e) = "]" /\ Tok(text, e + 1) = "]"

\* -- first pass: BRACKET_CITATION_REGEX  /\[\[Verse:\s*(.+?)\]\]/gi
BracketOpens(text, i) ==
    /\ Tok(text, i) = "[" /\ Tok(text, i + 1) = "["
    /\ LowerCase(Tok(text, i + 2)) = "verse" /\ Tok(text, i + 3) = ":"

\* (.+?)\]\] from start: the position of the nearest "]]" after at least
\* one character other than a line break; 0 if there is none.
ContentEnd(text, start) ==
    LET ends == {e \in (start + 1)..Len(text) :
                    /\ ClosesAt(text, e)
                    /\ \A j \in start..(e - 1) : text[j] # "\n"}
    IN  IF ends = {} THEN 0 ELSE Min(ends)

\* \s* takes as much white space as leaves a match. The result is the span
\* of the captured content, start = 0 if the expression does not match at i.
BracketMatch(text, i) ==
    LET starts == {st \in (i + 4)..SkipSpaces(text, i + 4) : ContentEnd(text, st) # 0}
    IN  IF ~BracketOpens(text, i) \/ starts = {}
        THEN [start |-> 0, end |-> 0]
        ELSE [start |-> Max(starts), end |-> ContentEnd(text, Max(starts))]

\* kandaList.find(k => new RegExp(k, 'i').test(content))
foundKanda(content) ==
    LET found == {k \in 1..Len(kandaList) :
                    \E j \in 1..Len(content) :
                        LowerCase(content[j]) = LowerCase(kandaList[k])}
    IN  IF found = {} THEN 0 ELSE Min(found)

\* /Kanda\s+(\d+)/i: the position of the first digit of the leftmost
\* match; 0 if there is none.
kandaIndexMatch(content) ==
    LET at == {j \in 1..Len(content) :
                 /\ LowerCase(content[j]) = "kanda"
                 /\ IsSpace(Tok(content, j + 1))
                 /\ IsDigit(Tok(content, SkipSpaces(content, j + 1)))}
    IN  IF at = {} THEN 0 ELSE SkipSpaces(content, Min(at) + 1)

\* content.match(/\d+/g): the maximal digit strings, in order.
RECURSIVE allNumbers(_, _)
allNumbers(content, i) ==
    IF i > Len(content) THEN <<>>
    ELSE IF IsDigit(content[i])
         THEN <<SubSeq(content, i, SkipDigits(content, i) - 1)>>
                \o allNumbers(content, SkipDigits(content, i))
         ELSE allNumbers(content, i + 1)

\* A variant of the callback of the first pass that treats a content without
\* a number as a chapter reference: it gives the verse 0.
BracketReplaceChapterDefault(content) ==
    LET index == kandaIndexMatch(content)
        indexDigits == SubSeq(content, index, SkipDigits(content, index) - 1)
        cleanKanda ==
            IF foundKanda(content) # 0
            THEN <<kandaList[foundKanda(content)], " ", "Kanda">>
            ELSE IF index # 0 /\ KANDA_MAP(indexDigits) # <<>>
                 THEN KANDA_MAP(indexDigits)
                 ELSE <<"Bala", " ", "Kanda">>
        isIndexed == index # 0
        dataNumbers == IF isIndexed THEN Tail(allNumbers(content, 1))
                                    ELSE allNumbers(content, 1)
    IN  IF Len(dataNumbers) >= 2
        THEN Marker(cleanKanda, dataNumbers[1], dataNumbers[2])
        ELSE IF Len(dataNumbers) = 1
             THEN Marker(cleanKanda, dataNumbers[1], <<"0">>)
             ELSE Marker(cleanKanda, <<"1">>, <<"0">>)

\* The callback of the first pass: the marker for the content of a
\* bracketed citation.
BracketReplace(content) ==
    LET index == kandaIndexMatch(content)
        indexDigits == SubSeq(content, index, SkipDigits(content, index) - 1)
        cleanKanda ==
            IF foundKanda(content) # 0
            THEN <<kandaList[foundKanda(content)], " ", "Kanda">>
            ELSE IF index # 0 /\ KANDA_MAP(indexDigits) # <<>>
                 THEN KANDA_MAP(indexDigits)
                 ELSE <<"Bala", " ", "Kanda">>
        isIndexed == index # 0
        dataNumbers == IF isIndexed THEN Tail(allNumbers(content, 1))
                                    ELSE allNumbers(content, 1)
    IN  IF Len(dataNumbers) >= 2
        THEN Marker(cleanKanda, dataNumbers[1], dataNumbers[2])
        ELSE IF Len(dataNumbers) = 1
             THEN Marker(cleanKanda, dataNumbers[1], <<"0">>)
             ELSE Marker(cleanKanda, <<"1">>, <<"1">>)

RECURSIVE BracketPass(_, _)
BracketPass(text, i) ==
    IF i > Len(text) THEN <<>>
    ELSE LET m == BracketMatch(text, i)
         IN  IF m.start = 0
             THEN <<text[i]>> \o BracketPass(text, i + 1)
             ELSE BracketReplace(SubSeq(text, m.start, m.end - 1))
                    \o BracketPass(text, m.end + 2)

\* prevChar and nextChar of a match: next to a bracket or a parenthesis
Adjacent(text, from, to) ==
    \/ Tok(text, from - 1) \in {"[", "("}
    \/ Tok(text, to + 1) \in {"]", ")"}

\* (Bala|...|Uttara)\s*Kanda\s* from i: the position after it, 0 if the
\* text does not start with it at i.
KandaPrefix(text, i) ==
    LET k == SkipSpaces(text, i + 1)
    IN  IF IsCanto(Tok(text, i)) /\ LowerCase(Tok(text, k)) = "kanda"
        THEN SkipSpaces(text, k + 1) ELSE 0

\* -- second pass: NAKED_CITATION_REGEX
\*    /(Bala|...|Uttara)\s*Kanda\s*(\d+)[: ](\d+)/gi
\* The result is the position after the match, 0 if there is no match at
\* i, with the spans of the two numbers.
NakedMatch(text, i) ==
    LET s1 == KandaPrefix(text, i)
        s2 == SkipDigits(text, s1)
        v2 == SkipDigits(text, s2 + 1)
    IN  IF /\ s1 # 0 /\ IsDigit(Tok(text, s1))
           /\ Tok(text, s2) \in {":", " "} /\ IsDigit(Tok(text, s2 + 1))
        THEN [end |-> v2, sNum |-> SubSeq(text, s1, s2 - 1),
              vNum |-> SubSeq(text, s2 + 1, v2 - 1)]
        ELSE [end |-> 0, sNum |-> <<>>, vNum |-> <<>>]

\* (processedContent.match(/:1/g) || []).length
ColonOnes(text) ==
    Cardinality({j \in 1..Len(text) : text[j] = ":" /\ Tok(text, j + 1) = "1"})

\* The callback of the second pass: the match is kept next to a bracket or
\* a parenthesis and when it is suspicious, and replaced by its marker
\* otherwise.
NakedReplace(text, i, m) ==
    LET isSuspicious == m.vNum = <<"1">> /\ ColonOnes(text) > 2
    IN  IF Adjacent(text, i, m.end - 1) \/ isSuspicious
        THEN SubSeq(text, i, m.end - 1)
        ELSE Marker(<<text[i], " ", "Kanda">>, m.sNum, m.vNum)

RECURSIVE NakedPass(_, _)
NakedPass(text, i) ==
    IF i > Len(text) THEN <<>>
    ELSE LET m == NakedMatch(text, i)
         IN  IF m.end = 0
             THEN <<text[i]>> \o NakedPass(text, i + 1)
             ELSE NakedReplace(text, i, m) \o NakedPass(text, m.end)

\* -- third pass: SARGA_ONLY_REGEX
\*    /(Bala|...|Uttara)\s*Kanda\s*(?:Sarga\s*)?(\d+)(?!\s*[:\d])/gi
SargaMatch(text, i) ==
    LET s0 == KandaPrefix(text, i)
        s1 == IF LowerCase(Tok(text, s0)) = "sarga"
              THEN SkipSpaces(text, s0 + 1) ELSE s0
        s2 == SkipDigits(text, s1)
        ahead == Tok(text, SkipSpaces(text, s2))
    IN  IF /\ s0 # 0 /\ IsDigit(Tok(text, s1))
           /\ ~(ahead = ":" \/ IsDigit(ahead))
        THEN [end |-> s2, sNum |-> SubSeq(text, s1, s2 - 1)]
        ELSE [end |-> 0, sNum |-> <<>>]

\* The callback of the third pass: the marker carries the verse 0.
SargaReplace(text, i, m) ==
    IF Adjacent(text, i, m.end - 1) \/ Tok(text, m.end) = ":"
    THEN SubSeq(text, i, m.end - 1)
    ELSE Marker(<<text[i], " ", "Kanda">>, m.sNum, <<"0">>)

RECURSIVE SargaOnlyPass(_, _)
SargaOnlyPass(text, i) ==
    IF i > Len(text) THEN <<>>
    ELSE LET m == SargaMatch(text, i)
         IN  IF m.end = 0
             THEN <<text[i]>> \o SargaOnlyPass(text, i + 1)
             ELSE SargaReplace(text, i, m) \o SargaOnlyPass(text, m.end)

\* -- final pass: /\[\[CIT:(.+?)\|(\d+)\|(\d+)\]\]/g
\* \|(\d+)\|(\d+)\]\] at e
MarkerTailAt(text, e) ==
    LET a == SkipDigits(text, e + 1)
        b == SkipDigits(text, a + 1)
    IN  /\ Tok(text, e) = "|" /\ IsDigit(Tok(text, e + 1))
        /\ Tok(text, a) = "|" /\ IsDigit(Tok(text, a + 1))
        /\ ClosesAt(text, b)

\* The position of the "|" that ends the name, 0 if there is no match at i.
MarkerMatch(text, i) ==
    LET ends == {e \in (i + 5)..Len(text) :
                    /\ MarkerTailAt(text, e)
                    /\ \A j \in (i + 4)..(e - 1) : text[j] # "\n"}
    IN  IF /\ Tok(text, i) = "[" /\ Tok(text, i + 1) = "["
           /\ Tok(text, i + 2) = "CIT" /\ Tok(text, i + 3) = ":"
           /\ ends # {}
        THEN Min(ends) ELSE 0

\* encodeURIComponent and decodeURIComponent, character by character
EncodeChar(t) ==
    CASE t = " " -> "%20" [] t = "[" -> "%5B" [] t = "]" -> "%5D"
      [] t = ":" -> "%3A" [] t = "|" -> "%7C" [] t = "/" -> "%2F"
      [] t = "\n" -> "%0A" [] OTHER -> t
DecodeChar(t) ==
    CASE t = "%20" -> " " [] t = "%5B" -> "[" [] t = "%5D" -> "]"
      [] t = "%3A" -> ":" [] t = "%7C" -> "|" [] t = "%2F" -> "/"
      [] t = "%0A" -> "\n" [] OTHER -> t
encodeURIComponent(k) == [j \in 1..Len(k) |-> EncodeChar(k[j])]
decodeURIComponent(k) == [j \in 1..Len(k) |-> DecodeChar(k[j])]

\* The Markdown link [k s:v](http://citation/k/s/v) of a marker.
CitationLink(k, sNum, vNum) ==
    <<"[">> \o k \o <<" ">> \o sNum \o <<":">> \o vNum \o <<"]", "(", "http://citation/">>
        \o encodeURIComponent(k) \o <<"/">> \o sNum \o <<"/">> \o vNum \o <<")">>

RECURSIVE FinalPass(_, _)
FinalPass(text, i) ==
    IF i > Len(text) THEN <<>>
    ELSE LET e == MarkerMatch(text, i)
             a == SkipDigits(text, e + 1)
             b == SkipDigits(text, a + 1)
         IN  IF e = 0
             THEN <<text[i]>> \o FinalPass(text, i + 1)
             ELSE CitationLink(SubSeq(text, i + 4, e - 1), SubSeq(text, e + 1, a - 1),
                               SubSeq(text, a + 1, b - 1))
                    \o FinalPass(text, b + 2)

\* processedContent of ChatMessage: the four passes over message.content.
extract(content) ==
    FinalPass(SargaOnlyPass(NakedPass(BracketPass(content, 1), 1), 1), 1)

\* -- the first copy of ChatMessage in the same source: it differs from the
\* second in two callbacks. In its first pass a single number is the chapter
\* of verse 1.
BracketReplaceFirstCopy(content) ==
    LET index == kandaIndexMatch(content)
        indexDigits == SubSeq(content, index, SkipDigits(content, index) - 1)
        cleanKanda ==
            IF foundKanda(content) # 0
            THEN <<kandaList[foundKanda(content)], " ", "Kanda">>
            ELSE IF index # 0 /\ KANDA_MAP(indexDigits) # <<>>
                 THEN KANDA_MAP(indexDigits)
                 ELSE <<"Bala", " ", "Kanda">>
        isIndexed == index # 0
        dataNumbers == IF isIndexed THEN Tail(allNumbers(content, 1))
                                    ELSE allNumbers(content, 1)
    IN  IF Len(dataNumbers) >= 2
        THEN Marker(cleanKanda, dataNumbers[1], dataNumbers[2])
        ELSE IF Len(dataNumbers) = 1
             THEN Marker(cleanKanda, dataNumbers[1], <<"1">>)
             ELSE Marker(cleanKanda, <<"1">>, <<"1">>)

RECURSIVE BracketPassFirstCopy(_, _)
BracketPassFirstCopy(text, i) ==
    IF i > Len(text) THEN <<>>
    ELSE LET m == BracketMatch(text, i)
         IN  IF m.start = 0
             THEN <<text[i]>> \o BracketPassFirstCopy(text, i + 1)
             ELSE BracketReplaceFirstCopy(SubSeq(text, m.start, m.end - 1))
                    \o BracketPassFirstCopy(text, m.end + 2)

\* In its third pass the marker carries the verse 1.
SargaReplaceFirstCopy(text, i, m) ==
    IF Adjacent(text, i, m.end - 1)
    THEN SubSeq(text, i, m.end - 1)
    ELSE Marker(<<text[i], " ", "Kanda">>, m.sNum, <<"1">>)

RECURSIVE SargaOnlyPassFirstCopy(_, _)
SargaOnlyPassFirstCopy(text, i) ==
    IF i > Len(text) THEN <<>>
    ELSE LET m == SargaMatch(text, i)
         IN  IF m.end = 0
             THEN <<text[i]>> \o SargaOnlyPassFirstCopy(text, i + 1)
             ELSE SargaReplaceFirstCopy(text, i, m)
                    \o SargaOnlyPassFirstCopy(text, m.end)

extractFirstCopy(content) ==
    FinalPass(SargaOnlyPassFirstCopy(NakedPass(BracketPassFirstCopy(content, 1), 1), 1), 1)

\* The citation renderer: the (kanda, sarga, shloka) that the links to
\* http://citation/ of a rendered text pass to onVerseClick.
Citation(kanda, sarga, shloka) == [kanda |-> kanda, sarga |-> sarga, shloka |-> shloka]

\* The first position from i on that holds "/" or ")" or nothing.
RECURSIVE PathPartEnd(_, _)
PathPartEnd(text, i) ==
    IF Tok(text, i) \in {"/", ")", ""} THEN i ELSE PathPartEnd(text, i + 1)

Citations(text) ==
    {Citation(decodeURIComponent(SubSeq(text, i + 1, PathPartEnd(text, i + 1) - 1)),
              SubSeq(text, PathPartEnd(text, i + 1) + 1,
                     PathPartEnd(text, PathPartEnd(text, i + 1) + 1) - 1),
              SubSeq(text, PathPartEnd(text, PathPartEnd(text, i + 1) + 1) + 1,
                     PathPartEnd(text, PathPartEnd(text, PathPartEnd(text, i + 1) + 1) + 1) - 1))
        : i \in {j \in 1..Len(text) : text[j] = "http://citation/" /\ Tok(text, j - 1) = "("}}

VARIABLES
    messages,          \* useAgent: the message list on screen
    isThinking,        \* useAgent: the busy flag
    currentThought,    \* useAgent: the thought shown while busy
    loops,             \* the sendMessage calls suspended in their read loop
    sessions,          \* useHistory: the session list, newest first
    storage,           \* localStorage: the items stored under STORAGE_KEY
    activeSessionId,   \* useHistory: id of the active session
    now,               \* Date.now()
    inputs,            \* number of inputs received so far
    crashed,           \* an updater threw while rendering: the tree is unmounted
    selectedVerse,     \* App: the verse of the detail view
    isLoadingVerse,    \* App: the loading flag of the detail view
    lookups,           \* the handleVerseClick calls suspended in their fetch
    alerts,            \* number of alert() dialogs shown
    processedContent   \* ChatMessage: the processed content of the last message

\* The state of the detail view and of the rendering.
viewVars == <<selectedVerse, isLoadingVerse, lookups, alerts, processedContent>>

vars == <<messages, isThinking, currentThought, loops, sessions, storage,
          activeSessionId, now, inputs, crashed, viewVars>>

\* ------------------------------------------------------- stream decoder
Last(s) == s[Len(s)]

\* (variant: a plan record never lowers the cursor)
ApplyPlanKeepsHigherCursor(m, data) ==
    [m EXCEPT !.plan = data.steps,
              !.planCompletedIndex = IF data.completed >= m.planCompletedIndex
                                     THEN data.completed ELSE m.planCompletedIndex]

\* plan: the plan and the cursor of the record replace the message's.
ApplyPlan(m, data) ==
    [m EXCEPT !.plan = data.steps, !.planCompletedIndex = data.completed]

\* plan_update: the cursor of the record replaces the message's.
ApplyPlanUpdate(m, data) ==
    [m EXCEPT !.planCompletedIndex = data.completed]

Includes(s, x) == \E i \in 1..Len(s) : s[i] = x

\* (variant: no de-duplication)
ApplyStepDetailAlways(m, data) ==
    [m EXCEPT !.planDetails[data.step_index] =
                Append(m.planDetails[data.step_index], data.detail)]

\* (variant: de-duplication against the last entry only)
ApplyStepDetailUnlessLast(m, data) ==
    LET stepDetails == m.planDetails[data.step_index]
    IN  IF stepDetails # <<>> /\ Last(stepDetails) = data.detail
        THEN m
        ELSE [m EXCEPT !.planDetails[data.step_index] = Append(stepDetails, data.detail)]

\* step_detail: the detail is added to the step's list unless the list
\* already includes it.
ApplyStepDetail(m, data) ==
    LET stepDetails == m.planDetails[data.step_index]
    IN  IF Includes(stepDetails, data.detail)
        THEN m
        ELSE [m EXCEPT !.planDetails[data.step_index] = Append(stepDetails, data.detail)]

\* (variant: the text replaces the thoughts)
ApplyThoughtOverwrites(m, data) ==
    [m EXCEPT !.thoughts = <<data.content>>]

\* thought: the text is appended to the message's thoughts.
ApplyThought(m, data) ==
    [m EXCEPT !.thoughts = Append(m.thoughts, data.content)]

\* (variant: the content of the record is appended)
ApplyAnswerAppends(m, data) ==
    [m EXCEPT !.content = m.content \o data.content]

\* answer: the content of the record replaces the message's.
ApplyAnswer(m, data) ==
    [m EXCEPT !.content = data.content]

PlanTypes == {"plan", "plan_update", "step_detail"}

\* The three updaters for plan, plan_update and step_detail: they patch the
\* messages that carry the id of the last message, if that is an assistant
\* message.
PatchLast(msgs, data) ==
    LET lastMsg == Last(msgs)
        Patch(m) == CASE data.type = "plan" -> ApplyPlan(m, data)
                      [] data.type = "plan_update" -> ApplyPlanUpdate(m, data)
                      [] data.type = "step_detail" -> ApplyStepDetail(m, data)
    IN  IF lastMsg.role = "assistant"
        THEN [i \in 1..Len(msgs) |->
                IF msgs[i].id = lastMsg.id THEN Patch(msgs[i]) ELSE msgs[i]]
        ELSE msgs

\* The updater for thought and answer: it patches the message that carries
\* the id of the placeholder of this stream.
PatchOwn(msgs, data, assistantMsgId) ==
    [i \in 1..Len(msgs) |->
        IF msgs[i].id # assistantMsgId THEN msgs[i]
        ELSE CASE data.type = "thought" -> ApplyThought(msgs[i], data)
               [] data.type = "answer" -> ApplyAnswer(msgs[i], data)
               [] OTHER -> msgs[i]]

\* What the decode loop writes: the message list, the current thought, and
\* whether an updater threw.
DecodeState(msgs, thought, threw) ==
    [messages |-> msgs, currentThought |-> thought, crashed |-> threw]

\* One parsed record applied. An updater of a plan type reads the role of
\* the last message: on an empty list it throws while React renders.
ApplyEvent(st, data, assistantMsgId) ==
    IF st.crashed THEN st
    ELSE IF data.type \in PlanTypes /\ st.messages = <<>>
    THEN DecodeState(st.messages, st.currentThought, TRUE)
    ELSE LET patched == IF data.type \in PlanTypes
                        THEN PatchLast(st.messages, data)
                        ELSE st.messages
         IN  DecodeState(PatchOwn(patched, data, assistantMsgId),
                         IF data.type = "thought" THEN data.content
                                                  ELSE st.currentThought,
                         FALSE)

\* buffer.split('\n'): the items before each delimiter, and what follows
\* the last delimiter.
RECURSIVE SplitLines(_, _, _)
SplitLines(items, line, lines) ==
    IF items = <<>> THEN [lines |-> lines, rest |-> line]
    ELSE IF Head(items) = NL
         THEN SplitLines(Tail(items), <<>>, Append(lines, line))
         ELSE SplitLines(Tail(items), Append(line, Head(items)), lines)

\* !line.trim(): a line without text
IsBlank(line) == line = <<>>

\* The text of a line: the two parts of a record, one after the other, are
\* the text of that record.
RECURSIVE Join(_)
Join(line) ==
    IF Len(line) < 2 THEN line
    ELSE IF /\ "front" \in DOMAIN line[1] /\ "back" \in DOMAIN line[2]
            /\ line[1].front = line[2].back
         THEN <<line[1].front>> \o Join(SubSeq(line, 3, Len(line)))
         ELSE <<line[1]>> \o Join(Tail(line))

\* JSON.parse(line) succeeds on the text of exactly one record.
Parses(line) ==
    /\ Len(Join(line)) = 1
    /\ "type" \in DOMAIN Join(line)[1]
    /\ Join(line)[1] # NotJson
Parse(line) == Join(line)[1]

\* (variant: the first line that does not parse ends the decoding of the
\* lines read with it)
RECURSIVE ParsedLinesUntilError(_)
ParsedLinesUntilError(lines) ==
    IF lines = <<>> THEN <<>>
    ELSE IF IsBlank(Head(lines)) THEN ParsedLinesUntilError(Tail(lines))
    ELSE IF Parses(Head(lines))
         THEN <<Parse(Head(lines))>> \o ParsedLinesUntilError(Tail(lines))
         ELSE <<>>

\* The records of the complete lines, in order: blank lines and lines that
\* do not parse are skipped.
RECURSIVE ParsedLines(_)
ParsedLines(lines) ==
    IF lines = <<>> THEN <<>>
    ELSE IF ~IsBlank(Head(lines)) /\ Parses(Head(lines))
         THEN <<Parse(Head(lines))>> \o ParsedLines(Tail(lines))
         ELSE ParsedLines(Tail(lines))

RECURSIVE ApplyEvents(_, _, _)
ApplyEvents(st, datas, assistantMsgId) ==
    IF datas = <<>> THEN st
    ELSE ApplyEvents(ApplyEvent(st, Head(datas), assistantMsgId), Tail(datas),
                     assistantMsgId)

\* (variant: the text left in the buffer is decoded as a last line)
LinesAtDoneFlushed(buffer) == <<buffer>>

\* The lines decoded once reader.read() returns done: none, the loop breaks
\* and the text left in the buffer is dropped.
LinesAtDone(buffer) == <<>>

\* A sendMessage call suspended in reader.read(): the id of its
\* placeholder, the text kept after the last delimiter, the complete lines
\* read and the records decoded so far, and what the transport has
\* signalled ("open": nothing yet, "done": end of stream, "failed": error),
\* and all the text that the chunks have carried.
Loop(assistantMsgId, buffer, lines, decoded, transport, received) ==
    [id |-> assistantMsgId, buffer |-> buffer, lines |-> lines,
     decoded |-> decoded, transport |-> transport, received |-> received]

\* (variant: the text kept from the chunks before is not put in front of
\* the chunk)
BufferedChunkOnly(buffer, chunk) == chunk

\* buffer += chunk
Buffered(buffer, chunk) == buffer \o chunk

\* The inputs a chunk counts for: the records it carries (its items other
\* than line delimiters), and one for a chunk of delimiters only.
Emitted(chunk) == Max({1, Len(SelectSeq(chunk, LAMBDA item : item # NL))})

\* ---------------------------------------------------------------- sessions
NewConversationTitle == <<"New Conversation">>
TitleLimit == 40

Session(id, title, msgs) == [id |-> id, title |-> title, messages |-> msgs]

\* createNewSession: the new session goes first.
createNewSession(sess, id) ==
    <<Session(id, NewConversationTitle, <<>>)>> \o sess

UserMessages(msgs) == SelectSeq(msgs, LAMBDA m : m.role = "user")

\* The title of a session still named "New Conversation": the first 40
\* characters of its first user message.
TitleFor(title, msgs) ==
    IF title = NewConversationTitle /\ UserMessages(msgs) # <<>>
    THEN LET content == Head(UserMessages(msgs)).content
         IN  IF Len(content) > TitleLimit
             THEN Append(SubSeq(content, 1, TitleLimit), "...")
             ELSE content
    ELSE title

\* updateActiveSession: the active session takes the message list.
updateActiveSession(sess, active, msgs) ==
    IF msgs = <<>> \/ active = NoSession THEN sess
    ELSE [i \in 1..Len(sess) |->
            IF sess[i].id = active /\ sess[i].messages # msgs
            THEN Session(sess[i].id, TitleFor(sess[i].title, msgs), msgs)
            ELSE sess[i]]

\* The effect of App that runs after a render: more than the greeting is
\* written to the active session.
SyncHistory(sess, active, msgs) ==
    IF Len(msgs) > 1 THEN updateActiveSession(sess, active, msgs) ELSE sess

\* JSON.stringify of a session list and JSON.parse of the text. A session
\* list holds strings, numbers, arrays and plain objects only; a property
\* whose value is undefined is left out of the text and reads undefined on
\* the object parsed from it, so the list read back has the same fields.
JSONstringify(sess) == [text |-> sess]
JSONparse(item) == item.text

\* The save effect of useHistory, run after a change of the session list:
\* a list that is not empty replaces the stored item.
SaveSessions(stored, sess) ==
    IF Len(sess) > 0 THEN <<JSONstringify(sess)>> ELSE stored

\* The load effect of useHistory: the list a mount reads from the store.
LoadSessions(stored) ==
    IF stored # <<>> THEN JSONparse(stored[1]) ELSE <<>>

SessionIds == {sessions[i].id : i \in 1..Len(sessions)}
SessionById(id) == sessions[CHOOSE i \in 1..Len(sessions) : sessions[i].id = id]

\* ----------------------------------------------------------------- actions
Init ==
    /\ messages = <<Greeting>>
    /\ isThinking = FALSE
    /\ currentThought = EmptyText
    /\ loops = {}
    /\ sessions = <<>>
    /\ storage = <<>>
    /\ activeSessionId = NoSession
    /\ now = 1
    /\ inputs = 0
    /\ crashed = FALSE
    /\ selectedVerse = NoVerse
    /\ isLoadingVerse = FALSE
    /\ lookups = {}
    /\ alerts = 0
    /\ processedContent = EmptyText

\* (variant: no busy gate)
SubmitAcceptedWhileBusy(q) == q # EmptyText

\* handleSubmit returns early on a blank input and while busy.
SubmitAccepted(q) == q # EmptyText /\ ~isThinking

\* handleSubmit with sendMessage up to its first await: a session is
\* created if none is active, the user message and the placeholder are
\* added, the busy flag is set and the request is sent.
handleSubmit(q) ==
    /\ ~crashed
    /\ inputs < MaxInputs
    /\ IF ~SubmitAccepted(q) THEN UNCHANGED vars
       ELSE LET assistantMsgId == now
                sess == IF activeSessionId = NoSession
                        THEN createNewSession(sessions, now) ELSE sessions
                active == IF activeSessionId = NoSession THEN now ELSE activeSessionId
                msgs == messages \o <<Message(NoId, "user", q),
                                      Message(assistantMsgId, "assistant", EmptyText)>>
            IN  /\ messages' = msgs
                /\ isThinking' = TRUE
                /\ currentThought' = ConnectingText
                /\ loops' = loops \cup {Loop(assistantMsgId, <<>>, <<>>, <<>>, "open", <<>>)}
                /\ activeSessionId' = active
                /\ sessions' = SyncHistory(sess, active, msgs)
                /\ storage' = SaveSessions(storage, sessions')
                /\ now' = now + 1
                /\ inputs' = inputs + 1
                /\ UNCHANGED <<crashed, viewVars>>

\* One turn of the read loop: reader.read() returns a chunk, the complete
\* lines of the buffer are decoded and applied, the rest stays buffered.
ReadChunk(l, chunk) ==
    /\ ~crashed
    /\ l \in loops
    /\ inputs + Emitted(chunk) <= MaxInputs
    /\ LET split == SplitLines(Buffered(l.buffer, chunk), <<>>, <<>>)
           datas == ParsedLines(split.lines)
           st == ApplyEvents(DecodeState(messages, currentThought, FALSE), datas, l.id)
       IN  /\ messages' = st.messages
           /\ currentThought' = st.currentThought
           /\ crashed' = st.crashed
           /\ loops' = (loops \ {l}) \cup
                        {Loop(l.id, split.rest, l.lines \o split.lines,
                              l.decoded \o datas, l.transport,
                              l.received \o chunk)}
           /\ sessions' = SyncHistory(sessions, activeSessionId, st.messages)
           /\ storage' = SaveSessions(storage, sessions')
           /\ inputs' = inputs + Emitted(chunk)
           /\ UNCHANGED <<isThinking, activeSessionId, now, viewVars>>

\* reader.read() returns done: the loop ends and the finally block runs.
StreamDone(l) ==
    /\ ~crashed
    /\ l \in loops
    /\ LET st == ApplyEvents(DecodeState(messages, currentThought, FALSE),
                             ParsedLines(LinesAtDone(l.buffer)), l.id)
       IN  /\ messages' = st.messages
           /\ sessions' = SyncHistory(sessions, activeSessionId, st.messages)
           /\ storage' = SaveSessions(storage, sessions')
    /\ loops' = loops \ {l}
    /\ isThinking' = FALSE
    /\ currentThought' = EmptyText
    /\ UNCHANGED <<activeSessionId, now, inputs, crashed, viewVars>>

\* (variant: the catch block takes back the last message)
catchBlockRollsBack(msgs) ==
    Append(SubSeq(msgs, 1, Len(msgs) - 1), Message(NoId, "error", InterruptedText))

\* The catch block of sendMessage: the error message is added to the list.
catchBlock(msgs) == Append(msgs, Message(NoId, "error", InterruptedText))

\* (variant: the busy flag and the current thought are left as they are)
StreamFailKeepsBusy(l) ==
    /\ ~crashed
    /\ l \in loops
    /\ messages' = catchBlock(messages)
    /\ sessions' = SyncHistory(sessions, activeSessionId, catchBlock(messages))
    /\ storage' = SaveSessions(storage, sessions')
    /\ loops' = loops \ {l}
    /\ UNCHANGED <<isThinking, currentThought, activeSessionId, now, inputs,
                   crashed, viewVars>>

\* fetch or reader.read() rejects: the catch block adds the error message
\* and the finally block runs.
StreamFail(l) ==
    /\ ~crashed
    /\ l \in loops
    /\ LET msgs == catchBlock(messages)
       IN  /\ messages' = msgs
           /\ sessions' = SyncHistory(sessions, activeSessionId, msgs)
           /\ storage' = SaveSessions(storage, sessions')
    /\ loops' = loops \ {l}
    /\ isThinking' = FALSE
    /\ currentThought' = EmptyText
    /\ UNCHANGED <<activeSessionId, now, inputs, crashed, viewVars>>

\* handleSelectSession: a stored session becomes the active one and its
\* messages replace the message list.
handleSelectSession(id) ==
    /\ ~crashed
    /\ id \in SessionIds
    /\ activeSessionId' = id
    /\ messages' = SessionById(id).messages
    /\ sessions' = SyncHistory(sessions, id, SessionById(id).messages)
    /\ storage' = SaveSessions(storage, sessions')
    /\ UNCHANGED <<isThinking, currentThought, loops, now, inputs, crashed, viewVars>>

\* handleNewSession: a new session becomes the active one and the message
\* list is reset to the greeting.
handleNewSession ==
    /\ ~crashed
    /\ inputs < MaxInputs
    /\ activeSessionId' = now
    /\ messages' = <<Greeting>>
    /\ sessions' = SyncHistory(createNewSession(sessions, now), now, <<Greeting>>)
    /\ storage' = SaveSessions(storage, sessions')
    /\ now' = now + 1
    /\ inputs' = inputs + 1
    /\ UNCHANGED <<isThinking, currentThought, loops, crashed, viewVars>>

\* deleteSession: the session is removed, and no session is active if it
\* was the active one.
deleteSession(id) ==
    /\ ~crashed
    /\ id \in SessionIds
    /\ LET sess == SelectSeq(sessions, LAMBDA s : s.id # id)
           active == IF activeSessionId = id THEN NoSession ELSE activeSessionId
       IN  /\ activeSessionId' = active
           /\ sessions' = SyncHistory(sess, active, messages)
           /\ storage' = SaveSessions(storage, sessions')
    /\ UNCHANGED <<messages, isThinking, currentThought, loops, now, inputs, crashed, viewVars>>

\* The records of the streams of the application runs: one of each type.
AppEvents ==
    {PlanEvent(PlanSFS, 0), PlanUpdateEvent(1), StepDetailEvent(0, "x"),
     ThoughtEvent(<<"Searching">>), AnswerEvent(AnswerAB)}

Next ==
    \/ \E q \in Queries : handleSubmit(q)
    \/ \E l \in loops, chunk \in ChunksOf(AppEvents) : ReadChunk(l, chunk)
    \/ \E l \in loops : StreamDone(l)
    \/ \E l \in loops : StreamFail(l)
    \/ \E id \in SessionIds : handleSelectSession(id)
    \/ handleNewSession
    \/ \E id \in SessionIds : deleteSession(id)

Spec == Init /\ [][Next]_vars

\* One conversation: queries and their streams over all records; no session
\* is selected, started or deleted.
NextConversation ==
    \/ \E q \in Queries : handleSubmit(q)
    \/ \E l \in loops, chunk \in ChunksOf(Events) : ReadChunk(l, chunk)
    \/ \E l \in loops : StreamDone(l)
    \/ \E l \in loops : StreamFail(l)

SpecConversation == Init /\ [][NextConversation]_vars

\* The transport signals the end of the stream of loop l: the next
\* reader.read() returns done.
TransportEnds(l) ==
    /\ ~crashed
    /\ l \in loops
    /\ l.transport = "open"
    /\ loops' = (loops \ {l}) \cup {Loop(l.id, l.buffer, l.lines, l.decoded, "done", l.received)}
    /\ UNCHANGED <<messages, isThinking, currentThought, sessions, storage, activeSessionId,
                   now, inputs, crashed, viewVars>>

\* The transport fails under loop l: the next reader.read() rejects.
TransportFails(l) ==
    /\ ~crashed
    /\ l \in loops
    /\ l.transport = "open"
    /\ loops' = (loops \ {l}) \cup {Loop(l.id, l.buffer, l.lines, l.decoded, "failed", l.received)}
    /\ UNCHANGED <<messages, isThinking, currentThought, sessions, storage, activeSessionId,
                   now, inputs, crashed, viewVars>>

\* One conversation with its transport: the transport signals the end or
\* the failure of a stream, and the read that was waiting returns.
NextFinalize ==
    \/ \E q \in Queries : handleSubmit(q)
    \/ \E l \in loops, chunk \in ChunksOf(AppEvents) :
          l.transport = "open" /\ ReadChunk(l, chunk)
    \/ \E l \in loops : TransportEnds(l)
    \/ \E l \in loops : TransportFails(l)
    \/ \E l \in loops : l.transport = "done" /\ StreamDone(l)
    \/ \E l \in loops : l.transport = "failed" /\ StreamFail(l)

\* A promise that is settled has its continuation run: the read that
\* returned done or rejected resumes sendMessage.
SpecFinalize ==
    /\ Init /\ [][NextFinalize]_vars
    /\ WF_vars(\E l \in loops : l.transport = "done" /\ StreamDone(l))
    /\ WF_vars(\E l \in loops : l.transport = "failed" /\ StreamFail(l))

\* ------------------------------------------------------------ verse lookup
\* message.content || "": the text ChatMessage processes.
ContentOf(m) == IF m.content = Undefined THEN EmptyText ELSE m.content

\* processedContent.replace(...) on a content that is truthy and no string:
\* replace is not a function, the render throws.
ReplaceThrows(content) == content = NumberContent

\* The citation buttons on screen: every message of the list is rendered by
\* ChatMessage.
Tokens == UNION {Citations(extract(ContentOf(messages[i]))) : i \in 1..Len(messages)}

\* The button of a citation whose shloka is '0' shows a chapter and ignores
\* clicks.
isChapterRef(c) == c.shloka = <<"0">>

\* A verse as the detail view holds it: { kanda, sarga, shloka } from the
\* click, and the record of the server with its translation.
Verse(kanda, sarga, shloka, translation) ==
    [kanda |-> kanda, sarga |-> sarga, shloka |-> shloka, translation |-> translation]

\* The record the server returns for a verse.
VerseData(k) == Verse(k.kanda, k.sarga, k.shloka, <<"translation">>)

\* A handleVerseClick call suspended in its fetch: the verse requested and
\* the input it was started by.
Lookup(c, n) == [kanda |-> c.kanda, sarga |-> c.sarga, shloka |-> c.shloka, at |-> n]

\* VerseModal renders unless it has neither a verse nor the loading flag;
\* its overlay covers the page.
ModalShown == selectedVerse # NoVerse \/ isLoadingVerse

\* A click on a citation button: nothing for a chapter reference, else
\* handleVerseClick up to its fetch.
CitationClick(c) ==
    /\ ~crashed
    /\ ~ModalShown
    /\ c \in Tokens
    /\ inputs < MaxInputs
    /\ IF isChapterRef(c) THEN UNCHANGED vars
       ELSE /\ isLoadingVerse' = TRUE
            /\ selectedVerse' = Verse(c.kanda, c.sarga, c.shloka, <<>>)
            /\ lookups' = lookups \cup {Lookup(c, inputs)}
            /\ inputs' = inputs + 1
            /\ UNCHANGED <<messages, isThinking, currentThought, loops, sessions, storage,
                           activeSessionId, now, crashed, alerts, processedContent>>

\* The fetch of a lookup resolves with the verse: handleVerseClick stores
\* it and clears the loading flag.
VerseReplyOk(k) ==
    /\ ~crashed
    /\ k \in lookups
    /\ selectedVerse' = VerseData(k)
    /\ isLoadingVerse' = FALSE
    /\ lookups' = lookups \ {k}
    /\ UNCHANGED <<messages, isThinking, currentThought, loops, sessions, storage,
                   activeSessionId, now, inputs, crashed, alerts, processedContent>>

\* (variant: the failure is reported as a message of the conversation)
VerseReplyErrorIntoChat(k) ==
    /\ ~crashed
    /\ k \in lookups
    /\ selectedVerse' = NoVerse
    /\ isLoadingVerse' = FALSE
    /\ lookups' = lookups \ {k}
    /\ messages' = catchBlock(messages)
    /\ UNCHANGED <<isThinking, currentThought, loops, sessions, storage,
                   activeSessionId, now, inputs, crashed, alerts, processedContent>>

\* (variant: the loading flag is cleared on the success path only)
VerseReplyErrorKeepsLoading(k) ==
    /\ ~crashed
    /\ k \in lookups
    /\ selectedVerse' = NoVerse
    /\ alerts' = alerts + 1
    /\ lookups' = lookups \ {k}
    /\ UNCHANGED <<messages, isThinking, currentThought, loops, sessions, storage,
                   activeSessionId, now, inputs, crashed, isLoadingVerse,
                   processedContent>>

\* The fetch of a lookup fails or answers with an error status: the catch
\* block of handleVerseClick clears the verse and shows an alert, and the
\* loading flag is cleared.
VerseReplyError(k) ==
    /\ ~crashed
    /\ k \in lookups
    /\ selectedVerse' = NoVerse
    /\ alerts' = alerts + 1
    /\ isLoadingVerse' = FALSE
    /\ lookups' = lookups \ {k}
    /\ UNCHANGED <<messages, isThinking, currentThought, loops, sessions, storage,
                   activeSessionId, now, inputs, crashed, processedContent>>

\* onClose of VerseModal, from its buttons or a press outside its box.
VerseClose ==
    /\ ~crashed
    /\ ModalShown
    /\ selectedVerse' = NoVerse
    /\ UNCHANGED <<messages, isThinking, currentThought, loops, sessions, storage,
                   activeSessionId, now, inputs, crashed, isLoadingVerse, lookups,
                   alerts, processedContent>>

\* Contents with a verse citation, a chapter citation and a citation whose
\* verse is written 00.
\* An answer without a citation.
SingleWord == <<"Dharma">>
AnswerVerse == <<"Bala", " ", "Kanda", " ", "4", ":", "5">>
AnswerChapter == <<"Aranya", " ", "Kanda", " ", "9">>
AnswerZeros == <<"Bala", " ", "Kanda", " ", "4", ":", "0", "0">>

VerseEvents ==
    {AnswerEvent(AnswerVerse), AnswerEvent(AnswerChapter), AnswerEvent(AnswerZeros),
     ThoughtEvent(<<"Searching">>)}

\* One conversation with the detail view: citations of the messages are
\* clicked while streams run and after.
NextVerse ==
    \/ \E q \in Queries : handleSubmit(q)
    \/ \E l \in loops, chunk \in ChunksOf(VerseEvents) : ReadChunk(l, chunk)
    \/ \E l \in loops : StreamDone(l)
    \/ \E c \in Tokens : CitationClick(c)
    \/ \E k \in lookups : VerseReplyOk(k)
    \/ \E k \in lookups : VerseReplyError(k)
    \/ VerseClose

SpecVerse == Init /\ [][NextVerse]_vars

\* The fetch of a lookup settles: it resolves or it rejects. The runs in
\* which every fetch settles are the fair runs of the detail view.
FetchSettles == \E k \in lookups : VerseReplyOk(k) \/ VerseReplyError(k)

SpecVerseFair == Init /\ [][NextVerse]_vars /\ WF_vars(FetchSettles)

\* ---------------------------------------------------------------- rendering
\* The pieces message contents are made of: a canto name, numbers after
\* it, the bracket form and its closing, characters that may surround a
\* citation, a canto index, a marker and its tail.
Pieces ==
    {<<"Bala", " ", "Kanda">>, <<" ", "4", ":", "5">>, <<" ", "3", ":", "1">>,
     <<" ", "9">>, <<"[", "[", "Verse", ":", " ">>, <<"]", "]">>, <<"[">>, <<"]">>,
     <<"(">>, <<" ">>, <<"Kanda", " ", "3">>, <<":", "1">>, <<"Sarga">>,
     <<"[", "[", "CIT", ":">>, <<"|", "1", "|", "2", "]", "]">>}

\* The texts of at most n pieces.
RECURSIVE TextsOf(_)
TextsOf(n) ==
    IF n = 0 THEN {EmptyText}
    ELSE TextsOf(n - 1) \cup {t \o p : t \in TextsOf(n - 1), p \in Pieces}

\* A message list that holds one message, of any text.
InitRender ==
    /\ messages \in {<<Message(NoId, "assistant", t)>> : t \in TextsOf(MaxPieces)}
    /\ isThinking = FALSE
    /\ currentThought = EmptyText
    /\ loops = {}
    /\ sessions = <<>>
    /\ storage = <<>>
    /\ activeSessionId = NoSession
    /\ now = 1
    /\ inputs = 0
    /\ crashed = FALSE
    /\ selectedVerse = NoVerse
    /\ isLoadingVerse = FALSE
    /\ lookups = {}
    /\ alerts = 0
    /\ processedContent = EmptyText

\* ChatMessage renders the last message: its content goes through the
\* passes of the extraction.
Render ==
    /\ ~crashed
    /\ messages # <<>>
    /\ IF ReplaceThrows(Last(messages).content)
       THEN crashed' = TRUE /\ UNCHANGED processedContent
       ELSE /\ processedContent' = extract(ContentOf(Last(messages)))
            /\ UNCHANGED crashed
    /\ UNCHANGED <<messages, isThinking, currentThought, loops, sessions, storage,
                   activeSessionId, now, inputs, selectedVerse,
                   isLoadingVerse, lookups, alerts>>

\* The same rendering by the first copy of ChatMessage.
RenderFirstCopy ==
    /\ ~crashed
    /\ messages # <<>>
    /\ IF ReplaceThrows(Last(messages).content)
       THEN crashed' = TRUE /\ UNCHANGED processedContent
       ELSE /\ processedContent' = extractFirstCopy(ContentOf(Last(messages)))
            /\ UNCHANGED crashed
    /\ UNCHANGED <<messages, isThinking, currentThought, loops, sessions, storage,
                   activeSessionId, now, inputs, selectedVerse,
                   isLoadingVerse, lookups, alerts>>

\* A rendering by either copy.
Rendering == Render \/ RenderFirstCopy

NextRender == Render \/ RenderFirstCopy

SpecRender == InitRender /\ [][NextRender]_vars

\* The citation runs: the texts are lists of citations in the forms that
\* the three passes accept, each followed by a comma and a space.
NakedColonOne == <<"Bala", " ", "Kanda", " ", "3", ":", "1">>
NakedSpaceOne == <<"Bala", " ", "Kanda", " ", "3", " ", "1">>
NakedColon == <<"Aranya", " ", "Kanda", " ", "4", ":", "5">>
ChapterOnly == <<"Aranya", " ", "Kanda", " ", "9">>
LowerCaseCanto == <<"bala", " ", "kanda", " ", "4", ":", "5">>
ChapterZero == <<"Yuddha", " ", "Kanda", " ", "0">>
BracketedByName == <<"[", "[", "Verse", ":", " ", "Sundara", " ", "2", ":", "3", "]", "]">>
TimeOfDay == <<"at", " ", "9", ":", "1", "5">>

Forms ==
    {NakedColonOne, NakedSpaceOne, NakedColon, ChapterOnly, LowerCaseCanto,
     ChapterZero, BracketedByName, TimeOfDay}

\* The texts of at most n citations.
RECURSIVE FormTexts(_)
FormTexts(n) ==
    IF n = 0 THEN {EmptyText}
    ELSE FormTexts(n - 1)
            \cup {t \o f \o <<",", " ">> : t \in FormTexts(n - 1), f \in Forms}

InitForms ==
    /\ messages \in {<<Message(NoId, "assistant", t)>> : t \in FormTexts(MaxForms)}
    /\ isThinking = FALSE
    /\ currentThought = EmptyText
    /\ loops = {}
    /\ sessions = <<>>
    /\ storage = <<>>
    /\ activeSessionId = NoSession
    /\ now = 1
    /\ inputs = 0
    /\ crashed = FALSE
    /\ selectedVerse = NoVerse
    /\ isLoadingVerse = FALSE
    /\ lookups = {}
    /\ alerts = 0
    /\ processedContent = EmptyText

NextForms == Render \/ RenderFirstCopy

SpecForms == InitForms /\ [][NextForms]_vars

\* The chat runs: the decoder stores what the answer records carry, and
\* ChatMessage renders the last message of the list.
ChatEvents ==
    {AnswerEvent(AnswerVerse), AnswerEvent(AnswerChapter), AnswerEvent(SingleWord),
     AnswerNumber, AnswerNoContent}

NextChat ==
    \/ \E q \in Queries : handleSubmit(q)
    \/ \E l \in loops, chunk \in ChunksOf(ChatEvents) : ReadChunk(l, chunk)
    \/ \E l \in loops : StreamDone(l)
    \/ \E l \in loops : StreamFail(l)
    \/ Render
    \/ RenderFirstCopy

SpecChat == Init /\ [][NextChat]_vars

\* The records of the streams of the decoder runs.
DecoderEvents ==
    {AnswerEvent(AnswerA), AnswerEvent(AnswerAB), ThoughtEvent(<<"Searching">>),
     PlanEvent(PlanSFS, 0), StepDetailEvent(0, "x")}

\* The chunks of the decoder runs: a record with its delimiter, a record
\* whose delimiter comes with a later chunk, a delimiter, a line that is no
\* JSON alone and followed by a record, and a record out of contract.
DecoderChunks ==
    ChunksOf(DecoderEvents) \cup {<<e>> : e \in DecoderEvents} \cup {<<NL>>}
        \cup {<<NotJson, NL>>} \cup {<<NotJson, NL, e, NL>> : e \in DecoderEvents}
        \cup ChunksOf(MalformedEvents)

\* One conversation seen from the decoder: chunks that split and break
\* lines, until the transport signals the end of the stream.
NextDecoder ==
    \/ \E q \in Queries : handleSubmit(q)
    \/ \E l \in loops, chunk \in DecoderChunks :
          l.transport = "open" /\ ReadChunk(l, chunk)
    \/ \E l \in loops : TransportEnds(l)
    \/ \E l \in loops : l.transport = "done" /\ StreamDone(l)

SpecDecoder == Init /\ [][NextDecoder]_vars

\* The chunks of the chunking runs: the stream is cut at any place, between
\* records, before a delimiter and inside the text of a record.
ChunkEvents == {AnswerEvent(AnswerA), AnswerEvent(AnswerAB), PlanUpdateEvent(1)}

Chunkings ==
    ChunksOf(ChunkEvents) \cup {<<NL>>}
        \cup {<<e>> : e \in ChunkEvents}
        \cup {<<Front(e)>> : e \in ChunkEvents}
        \cup {<<Back(e)>> : e \in ChunkEvents}
        \cup {<<Back(e), NL>> : e \in ChunkEvents}
        \cup {<<e, NL, Front(f)>> : e, f \in ChunkEvents}

NextChunks ==
    \/ \E q \in Queries : handleSubmit(q)
    \/ \E l \in loops, chunk \in Chunkings :
          l.transport = "open" /\ ReadChunk(l, chunk)
    \/ \E l \in loops : TransportEnds(l)
    \/ \E l \in loops : l.transport = "done" /\ StreamDone(l)

SpecChunks == Init /\ [][NextChunks]_vars

\* ------------------------------------------------------------------ claims
\* The messages of the list that carry the id of the placeholder of loop l.
Own(msgs, l) == {msgs[i] : i \in {j \in 1..Len(msgs) : msgs[j].id = l.id}}

OfType(datas, type) == SelectSeq(datas, LAMBDA d : d.type = type)

\* The stream of the end-to-end scenario.
ScenarioStream ==
    <<PlanEvent(PlanSFS, 0), PlanUpdateEvent(1), AnswerEvent(AnswerAB)>>

\* C1: when a loop has decoded exactly Plan{[Search, Filter, Synthesize], 0},
\* PlanUpdate{1}, Answer{"Final text [[Verse: Bala Kanda 4:5]]"} and the
\* stream ends, the resulting message has that plan, the cursor 1, and the
\* extraction of its content holds a citation of Bala Kanda 4:5.
C1_EndToEnd ==
    [][\A l \in loops :
        (l.decoded = ScenarioStream /\ StreamDone(l)) =>
            /\ Own(messages', l) # {}
            /\ \A m \in Own(messages', l) :
                /\ m.plan = PlanSFS
                /\ m.planCompletedIndex = 1
                /\ Citation(<<"Bala", " ", "Kanda">>, <<"4">>, <<"5">>)
                     \in Citations(extract(m.content))]_vars

\* C2: while a loop has decoded plan_update records and no plan record, the
\* cursor of its message is the greatest completed index received, so it
\* never decreases.
C2_CursorIsMaximum ==
    \A l \in loops :
        LET updates == OfType(l.decoded, "plan_update")
        IN  (updates # <<>> /\ OfType(l.decoded, "plan") = <<>>) =>
                \A m \in Own(messages, l) :
                    m.planCompletedIndex =
                        Max({updates[k].completed : k \in 1..Len(updates)})

\* C3: at most one decode loop is active, the busy flag is set exactly
\* while a loop is active, and a query submitted while busy changes neither
\* the message list nor the loops.
C3_OneLoop ==
    /\ [](Cardinality(loops) <= 1 /\ (isThinking <=> loops # {}))
    /\ [][isThinking =>
            \A q \in Queries : handleSubmit(q) => UNCHANGED <<messages, loops>>]_vars

C3_Witness ==
    /\ isThinking /\ Cardinality(loops) = 1 /\ ~crashed
    /\ inputs < MaxInputs
    /\ \E l \in loops : l.decoded # <<>>

\* C4: while a stream is active, selecting a session, starting a new session
\* and deleting a session leave the message of the stream in the message
\* list, unchanged.
C4_SoleWriter ==
    [][\A l \in loops :
        (\/ handleNewSession
         \/ \E id \in SessionIds : handleSelectSession(id)
         \/ \E id \in SessionIds : deleteSession(id))
        => Own(messages', l) = Own(messages, l)]_vars

\* An assistant message built by a stream that has ended.
Finalized(m) ==
    m.role = "assistant" /\ m.id # NoId /\ \A l \in loops : l.id # m.id

\* C5: no step changes a message whose stream has ended.
C5_FinalizedImmutable ==
    [][\A i \in 1..Len(messages), j \in 1..Len(messages') :
        (Finalized(messages[i]) /\ messages'[j].id = messages[i].id)
            => messages'[j] = messages[i]]_vars

\* The content of the last answer record of a sequence of records.
LastAnswer(datas) ==
    IF OfType(datas, "answer") = <<>> THEN EmptyText
    ELSE Last(OfType(datas, "answer")).content

\* C6: the content of the message of a stream is the content of the last
\* answer record decoded, while the stream is active and when it ends.
C6_AnswerReplaces ==
    /\ [](\A l \in loops : \A m \in Own(messages, l) :
            m.content = LastAnswer(l.decoded))
    /\ [][\A l \in loops : StreamDone(l) =>
            \A m \in Own(messages', l) : m.content = LastAnswer(l.decoded)]_vars

C6_Witness ==
    \E l \in loops :
        /\ OfType(l.decoded, "answer") = <<AnswerEvent(AnswerA), AnswerEvent(AnswerAB)>>
        /\ \E m \in Own(messages, l) : m.content = AnswerAB

Count(s, x) == Cardinality({k \in 1..Len(s) : s[k] = x})

\* C7: when a loop has decoded the same step_detail record twice in a row,
\* the list of that step holds the detail exactly once.
C7_RedeliveryIdempotent ==
    \A l \in loops : \A k \in 1..(Len(l.decoded) - 1) :
        (l.decoded[k].type = "step_detail" /\ l.decoded[k + 1] = l.decoded[k]) =>
            \A m \in Own(messages, l) :
                Count(m.planDetails[l.decoded[k].step_index], l.decoded[k].detail) = 1

C7_Witness ==
    \E l \in loops :
        /\ l.decoded = <<StepDetailEvent(0, "x"), StepDetailEvent(0, "x")>>
        /\ \E m \in Own(messages, l) : m.planDetails[0] = <<"x">>

\* The details of the step_detail records for step i, in order.
RECURSIVE DetailsFor(_, _)
DetailsFor(datas, i) ==
    IF datas = <<>> THEN <<>>
    ELSE IF Head(datas).type = "step_detail" /\ Head(datas).step_index = i
         THEN <<Head(datas).detail>> \o DetailsFor(Tail(datas), i)
         ELSE DetailsFor(Tail(datas), i)

\* A sequence without the entries that equal the entry before them.
RECURSIVE DropRepeats(_)
DropRepeats(s) ==
    IF Len(s) <= 1 THEN s
    ELSE IF s[Len(s)] = s[Len(s) - 1]
         THEN DropRepeats(SubSeq(s, 1, Len(s) - 1))
         ELSE Append(DropRepeats(SubSeq(s, 1, Len(s) - 1)), s[Len(s)])

\* A sequence without the entries that occur earlier in it.
RECURSIVE DropKnown(_)
DropKnown(s) ==
    IF s = <<>> THEN <<>>
    ELSE IF Includes(SubSeq(s, 1, Len(s) - 1), s[Len(s)])
         THEN DropKnown(SubSeq(s, 1, Len(s) - 1))
         ELSE Append(DropKnown(SubSeq(s, 1, Len(s) - 1)), s[Len(s)])

\* C8 as stated: the list of every step holds the details received for the
\* step, each appended unless it equals the entry received just before it
\* (x, y, x gives [x, y, x]).
C8_AppendsUnlessLast ==
    \A l \in loops : \A m \in Own(messages, l) : \A i \in StepIndexes :
        m.planDetails[i] = DropRepeats(DetailsFor(l.decoded, i))

\* C8 as amended: the list of every step holds the details received for the
\* step, each appended to the end unless the list already holds it anywhere
\* (x, y, x gives [x, y]); records for other steps do not change it.
C8_AppendsUnlessIncluded ==
    \A l \in loops : \A m \in Own(messages, l) : \A i \in StepIndexes :
        m.planDetails[i] = DropKnown(DetailsFor(l.decoded, i))

C8_Witness ==
    \E l \in loops :
        /\ l.decoded = <<StepDetailEvent(0, "x"), StepDetailEvent(0, "y"), StepDetailEvent(0, "x")>>
        /\ \E m \in Own(messages, l) :
            m.planDetails[0] = <<"x", "y">> /\ m.planDetails[1] = <<>>

\* C9: the plan of the message of a stream is the step list of the last plan
\* record decoded, and right after a plan record the cursor is the record's,
\* whatever plan and cursor the message had.
C9_PlanReplaces ==
    \A l \in loops : \A m \in Own(messages, l) :
        /\ m.plan = IF OfType(l.decoded, "plan") = <<>> THEN NoPlan
                    ELSE Last(OfType(l.decoded, "plan")).steps
        /\ (l.decoded # <<>> /\ Last(l.decoded).type = "plan") =>
                m.planCompletedIndex = Last(l.decoded).completed

C9_Witness ==
    \E l \in loops :
        /\ l.decoded = <<PlanEvent(PlanAlt, 2), PlanUpdateEvent(3), PlanEvent(PlanSFS, 0)>>
        /\ \E m \in Own(messages, l) : m.plan = PlanSFS /\ m.planCompletedIndex = 0

\* The texts of the thought records of a sequence of records, in order.
ThoughtsOf(datas) ==
    [k \in 1..Len(OfType(datas, "thought")) |-> OfType(datas, "thought")[k].content]

\* C10: the thoughts of the message of a stream are the texts of the thought
\* records decoded, in order, and once a thought is decoded the current
\* thought is the last of them.
C10_ThoughtsLog ==
    \A l \in loops :
        /\ \A m \in Own(messages, l) : m.thoughts = ThoughtsOf(l.decoded)
        /\ ThoughtsOf(l.decoded) # <<>> => currentThought = Last(ThoughtsOf(l.decoded))

C10_Witness ==
    \E l \in loops :
        /\ ThoughtsOf(l.decoded) = <<<<"Searching">>, <<"Filtering">>>>
        /\ Last(l.decoded).type = "answer"
        /\ currentThought = <<"Filtering">>
        /\ \E m \in Own(messages, l) : m.thoughts = ThoughtsOf(l.decoded)

\* The records of the lines that hold exactly one record of the contract.
RECURSIVE WellFormedRecords(_)
WellFormedRecords(lines) ==
    IF lines = <<>> THEN <<>>
    ELSE IF Len(Head(lines)) = 1 /\ Head(lines)[1] \in Events
         THEN <<Head(lines)[1]>> \o WellFormedRecords(Tail(lines))
         ELSE WellFormedRecords(Tail(lines))

\* No line of the sequence holds a record out of contract.
InContract(lines) ==
    \A k \in 1..Len(lines) : \A j \in 1..Len(lines[k]) : lines[k][j] \notin MalformedEvents

\* C11: a line that is no JSON changes neither the messages nor the current
\* thought nor the busy flag and leaves the loop active, and the content and
\* the thoughts of the message of a stream are those of the well-formed
\* records among all the lines read, the lines after a skipped one included.
C11_SkipsUnparsable ==
    /\ [](\A l \in loops : InContract(l.lines) =>
            \A m \in Own(messages, l) :
                /\ m.content = LastAnswer(WellFormedRecords(l.lines))
                /\ m.thoughts = ThoughtsOf(WellFormedRecords(l.lines)))
    /\ [][\A l \in loops : ReadChunk(l, <<NotJson, NL>>) =>
            /\ UNCHANGED <<messages, currentThought, isThinking, crashed>>
            /\ \E l2 \in loops' : l2.id = l.id]_vars

C11_Witness ==
    \E l \in loops :
        /\ l.lines = <<<<NotJson>>, <<AnswerEvent(AnswerA)>>>>
        /\ \E m \in Own(messages, l) : m.content = AnswerA

\* C12: a record out of contract (a known type without its fields, or an
\* unknown type) changes neither the messages nor the current thought.
C12_SkipsMalformed ==
    [][\A l \in loops : \A e \in MalformedEvents :
        ReadChunk(l, <<e, NL>>) => UNCHANGED <<messages, currentThought>>]_vars

\* C13: when the stream ends with text left in the buffer, the messages do
\* not change, and while a record is buffered without its delimiter the
\* message of the stream does not show it.
C13_DropsBufferedText ==
    /\ [](\A l \in loops : (l.lines = <<>> /\ l.buffer # <<>>) =>
            \A m \in Own(messages, l) : m = Message(l.id, "assistant", EmptyText))
    /\ [][\A l \in loops : (StreamDone(l) /\ l.buffer # <<>>) =>
            UNCHANGED messages]_vars

C13_Witness ==
    \E l \in loops :
        /\ l.transport = "done"
        /\ l.buffer = <<AnswerEvent(AnswerA)>>
        /\ l.lines = <<>>
        /\ \E m \in Own(messages, l) : m.content = EmptyText

ErrorCount(msgs) == Len(SelectSeq(msgs, LAMBDA m : m.role = "error"))

\* C14: a stream that fails adds exactly one error message at the end of the
\* list and leaves every message of the list as it was, the partly built one
\* included; a stream that ends adds none and changes none.
C14_FailureKeepsPartial ==
    [][\A l \in loops :
        /\ StreamFail(l) =>
            /\ Len(messages') = Len(messages) + 1
            /\ SubSeq(messages', 1, Len(messages)) = messages
            /\ Last(messages').role = "error"
            /\ ErrorCount(messages') = ErrorCount(messages) + 1
        /\ StreamDone(l) => messages' = messages]_vars

C14_Witness ==
    /\ loops = {}
    /\ Len(messages) = 4
    /\ messages[3].role = "assistant" /\ messages[3].content = AnswerA
    /\ messages[3].thoughts = <<<<"Searching">>>>
    /\ messages[4].role = "error"

\* C15: once the transport has signalled the end or the failure of a stream,
\* its loop eventually stops with the busy flag cleared and the current
\* thought reset, and a query is accepted.
C15_Finalizes ==
    \A id \in 1..MaxInputs :
        (\E l \in loops : l.id = id /\ l.transport # "open")
            ~> (/\ \A l \in loops : l.id # id
                /\ ~isThinking
                /\ currentThought = EmptyText
                /\ \A q \in Queries : SubmitAccepted(q))

C15_Witness ==
    /\ ErrorCount(messages) = 1
    /\ isThinking
    /\ \E l \in loops : l.transport = "done" /\ l.decoded # <<>>

\* The detail view is loading the verse of lookup k.
LoadingFor(k) ==
    isLoadingVerse /\ selectedVerse = Verse(k.kanda, k.sarga, k.shloka, <<>>)

C17_CloseDiscards ==
    [][/\ (VerseClose /\ isLoadingVerse) => ~ModalShown'
       /\ \A k \in lookups :
            ((VerseReplyOk(k) \/ VerseReplyError(k)) /\ selectedVerse = NoVerse) =>
                (selectedVerse' = NoVerse /\ alerts' = alerts)]_vars

\* C18: a click on a citation, a reply to a lookup and the closing of the
\* detail view change neither the messages nor the busy flag nor the current
\* thought, nor the loops and the sessions, also while a stream is active.
C18_LookupFrame ==
    [][(\/ \E c \in Tokens : CitationClick(c)
        \/ \E k \in lookups : VerseReplyOk(k)
        \/ \E k \in lookups : VerseReplyError(k)
        \/ VerseClose)
       => UNCHANGED <<messages, isThinking, currentThought, loops, sessions,
                      activeSessionId>>]_vars

C18_Witness ==
    /\ alerts = 1
    /\ ~ModalShown
    /\ \E l \in loops : l.decoded = <<AnswerEvent(AnswerVerse)>>
    /\ Last(messages).content = AnswerVerse

\* The number a sequence of decimal digits denotes.
RECURSIVE Number(_)
Number(digits) ==
    IF digits = <<>> THEN 0
    ELSE 10 * Number(SubSeq(digits, 1, Len(digits) - 1))
            + (CHOOSE n \in 0..9 : ToString(n) = digits[Len(digits)])

\* C19: every lookup in flight asks for a verse of number 1 or more: a
\* click on a citation of verse 0 starts none.
C19_LookupsFromOne ==
    \A k \in lookups : Number(k.shloka) >= 1

\* C20: the extraction of a processed content is that processed content.
C20_Idempotent ==
    extract(processedContent) = processedContent

\* The content that ChatMessage renders in the rendering runs.
RenderedContent == ContentOf(Last(messages))

\* The inner texts of the bracketed citations of a text, in order.
RECURSIVE BracketContents(_, _)
BracketContents(text, i) ==
    IF i > Len(text) THEN <<>>
    ELSE LET m == BracketMatch(text, i)
         IN  IF m.start = 0 THEN BracketContents(text, i + 1)
             ELSE <<SubSeq(text, m.start, m.end - 1)>>
                    \o BracketContents(text, m.end + 2)

\* The canto names that a text holds as words.
CantosIn(text) ==
    {k \in 1..Len(kandaList) : \E j \in 1..Len(text) : text[j] = kandaList[k]}

\* C21: a bracketed citation whose inner text holds one canto name and
\* exactly two integers N then M is rendered as the citation of that canto,
\* chapter N, verse M.
C21_BracketedTwoNumbers ==
    [][Rendering =>
        LET inners == BracketContents(RenderedContent, 1)
        IN  \A n \in 1..Len(inners) :
                LET numbers == allNumbers(inners[n], 1)
                    cantos == CantosIn(inners[n])
                IN  (Len(numbers) = 2 /\ Cardinality(cantos) = 1) =>
                        \E k \in cantos :
                            Citation(<<kandaList[k], " ", "Kanda">>,
                                     numbers[1], numbers[2])
                                \in Citations(processedContent')]_vars

\* C22: a bracketed citation whose inner text holds exactly one integer N is
\* rendered as a citation of chapter N and verse 0.
C22_BracketedOneNumber ==
    [][Rendering =>
        LET inners == BracketContents(RenderedContent, 1)
        IN  \A n \in 1..Len(inners) :
                LET numbers == allNumbers(inners[n], 1)
                IN  Len(numbers) = 1 =>
                        \E c \in Citations(processedContent') :
                            c.sarga = numbers[1] /\ c.shloka = <<"0">>]_vars

\* C23: a bracketed citation whose inner text holds no integer is rendered
\* as a citation of chapter 1 and verse 1.
C23_BracketedNoNumber ==
    [][Rendering =>
        LET inners == BracketContents(RenderedContent, 1)
        IN  \A n \in 1..Len(inners) :
                allNumbers(inners[n], 1) = <<>> =>
                    \E c \in Citations(processedContent') :
                        c.sarga = <<"1">> /\ c.shloka = <<"1">>]_vars

C23_Witness ==
    /\ RenderedContent = <<"[", "[", "Verse", ":", " ", "Bala", " ", "Kanda", "]", "]">>
    /\ processedContent = CitationLink(<<"Bala", " ", "Kanda">>, <<"1">>, <<"1">>)

\* The positions of the citation links of a rendered text.
Links(text) ==
    {j \in 1..Len(text) : text[j] = "http://citation/" /\ Tok(text, j - 1) = "("}

\* The input "[Bala Kanda 4:5]".
SingleBracketed == <<"[", "Bala", " ", "Kanda", " ", "4", ":", "5", "]">>

\* C24: the rendering of "[Bala Kanda 4:5]" holds exactly one citation.
C24_SingleBracketsOnce ==
    [][(Rendering /\ RenderedContent = SingleBracketed) =>
        Cardinality(Links(processedContent')) = 1]_vars

\* The matches of the naked form in a text, in order.
RECURSIVE NakedMatches(_, _)
NakedMatches(text, i) ==
    IF i > Len(text) THEN <<>>
    ELSE LET m == NakedMatch(text, i)
         IN  IF m.end = 0 THEN NakedMatches(text, i + 1)
             ELSE <<m>> \o NakedMatches(text, m.end)

\* A text whose citations are n matches of the naked form, all of verse 1.
NakedVerseOnes(text, n) ==
    LET ms == NakedMatches(text, 1)
    IN  /\ Len(ms) = n
        /\ \A k \in 1..n : ms[k].vNum = <<"1">>
        /\ BracketContents(text, 1) = <<>>
        /\ \A i \in 1..Len(text) : SargaMatch(text, i).end = 0

\* C25: of 4 naked citations of verse 1, with a colon or a space between
\* chapter and verse, at most 2 are rendered as citations.
C25_HallucinationGuard ==
    [][(Rendering /\ NakedVerseOnes(RenderedContent, 4)) =>
        Cardinality(Links(processedContent')) <= 2]_vars

\* The positions of a text that lie in a bracketed citation.
RECURSIVE BracketCovered(_, _)
BracketCovered(text, i) ==
    IF i > Len(text) THEN {}
    ELSE LET m == BracketMatch(text, i)
         IN  IF m.start = 0 THEN BracketCovered(text, i + 1)
             ELSE i..(m.end + 1) \cup BracketCovered(text, m.end + 2)

\* C26: a chapter-only citation outside the bracketed citations, not
\* followed by a second number or a colon and not next to a bracket or a
\* parenthesis, is rendered as a citation with the chapter matched and the
\* verse 0.
C26_ChapterOnly ==
    [][Rendering =>
        \A i \in 1..Len(RenderedContent) \ BracketCovered(RenderedContent, 1) :
            LET m == SargaMatch(RenderedContent, i)
            IN  (m.end # 0 /\ ~Adjacent(RenderedContent, i, m.end - 1)) =>
                    \E c \in Citations(processedContent') :
                        c.sarga = m.sNum /\ c.shloka = <<"0">>]_vars

\* A text in which no pass of the extraction finds a match.
NoPattern(text) ==
    \A i \in 1..Len(text) :
        /\ BracketMatch(text, i).start = 0
        /\ NakedMatch(text, i).end = 0
        /\ SargaMatch(text, i).end = 0
        /\ MarkerMatch(text, i) = 0

\* C27: the rendering of a content that the decoder stored does not throw,
\* and a content without a citation pattern is rendered unchanged.
C27_ExtractionTotal ==
    [][Rendering =>
        /\ ~crashed'
        /\ NoPattern(RenderedContent) => processedContent' = RenderedContent]_vars

\* The 7 canto names.
CantoNames == {<<kandaList[k], " ", "Kanda">> : k \in 1..Len(kandaList)}

\* C28: every citation of a rendered text carries one of the 7 canto names
\* and a chapter of 1 or more.
C28_CantoAndChapter ==
    [][Rendering =>
        \A c \in Citations(processedContent') :
            c.kanda \in CantoNames /\ Number(c.sarga) >= 1]_vars

\* C29: no session holds an assistant message whose stream is still active.
C29_SessionsHoldFinalized ==
    \A i \in 1..Len(sessions) :
        \A j \in 1..Len(sessions[i].messages) :
            LET m == sessions[i].messages[j]
            IN  ~(m.role = "assistant" /\ \E l \in loops : l.id = m.id)

\* C30: the records of a stream are applied to the placeholder of that
\* stream: when a chunk of a loop is decoded, the placeholder is in the
\* message list and no message of another id changes.
C30_OneTarget ==
    [][\A l \in loops, chunk \in ChunksOf(AppEvents) :
        ReadChunk(l, chunk) =>
            /\ Own(messages, l) # {}
            /\ \A i \in 1..Len(messages) :
                  messages[i].id # l.id => messages'[i] = messages[i]]_vars

\* The message that a placeholder becomes when records are applied to it
\* one after the other.
MessageOf(id, datas) ==
    ApplyEvents(DecodeState(<<Message(id, "assistant", EmptyText)>>, EmptyText, FALSE),
                datas, id).messages[1]

\* C31: whatever the chunks were, the records decoded by a loop are those of
\* the complete lines of all the text received, in order and once each, the
\* text after the last delimiter is what the buffer holds, and the message
\* of the stream is the placeholder with these records applied.
C31_ChunkingIndependent ==
    \A l \in loops :
        LET whole == SplitLines(l.received, <<>>, <<>>)
        IN  /\ l.decoded = ParsedLines(whole.lines)
            /\ l.buffer = whole.rest
            /\ \A m \in Own(messages, l) : m = MessageOf(l.id, l.decoded)

C31_Witness ==
    \E l \in loops :
        /\ l.received = <<AnswerEvent(AnswerA), NL, Front(AnswerEvent(AnswerAB)),
                          Back(AnswerEvent(AnswerAB)), NL>>
        /\ l.decoded = <<AnswerEvent(AnswerA), AnswerEvent(AnswerAB)>>
        /\ \E m \in Own(messages, l) : m.content = AnswerAB

\* The positions of the naked citations of a text outside its bracketed
\* citations.
NakedAt(text) ==
    {i \in 1..Len(text) \ BracketCovered(text, 1) : NakedMatch(text, i).end # 0}

\* The naked citations of a text that are written with a colon before a
\* verse that starts with 1.
NakedColonOnes(text) ==
    {i \in NakedAt(text) :
        LET m == NakedMatch(text, i)
        IN  text[m.end - Len(m.vNum) - 1] = ":" /\ m.vNum[1] = "1"}

\* C32: a naked citation that is not next to a bracket or a parenthesis is
\* rendered as the citation of its canto, chapter and verse, unless its verse
\* is 1 and more than 2 naked citations of the message give ":1".
C32_WithheldOnlyIfSuspicious ==
    [][Rendering =>
        \A i \in NakedAt(RenderedContent) :
            LET m == NakedMatch(RenderedContent, i)
            IN  (/\ ~Adjacent(RenderedContent, i, m.end - 1)
                 /\ ~(/\ m.vNum = <<"1">>
                      /\ Cardinality(NakedColonOnes(RenderedContent)) > 2)) =>
                    Citation(<<RenderedContent[i], " ", "Kanda">>, m.sNum, m.vNum)
                        \in Citations(processedContent')]_vars

\* For each position of the text that the first pass returns, whether it
\* lies in a marker that the pass has made.
RECURSIVE BracketFlags(_, _)
BracketFlags(text, i) ==
    IF i > Len(text) THEN <<>>
    ELSE LET m == BracketMatch(text, i)
         IN  IF m.start = 0 THEN <<FALSE>> \o BracketFlags(text, i + 1)
             ELSE [k \in 1..Len(BracketReplace(SubSeq(text, m.start, m.end - 1)))
                     |-> TRUE] \o BracketFlags(text, m.end + 2)

\* The same for the text that the second pass returns, from the flags of
\* the text it reads.
RECURSIVE NakedFlags(_, _, _)
NakedFlags(text, flags, i) ==
    IF i > Len(text) THEN <<>>
    ELSE LET m == NakedMatch(text, i)
             replaced == NakedReplace(text, i, m)
         IN  IF m.end = 0 THEN <<flags[i]>> \o NakedFlags(text, flags, i + 1)
             ELSE (IF replaced = SubSeq(text, i, m.end - 1)
                   THEN SubSeq(flags, i, m.end - 1)
                   ELSE [k \in 1..Len(replaced) |-> TRUE])
                    \o NakedFlags(text, flags, m.end)

\* No match of the second pass in the text of the first pass, and no match
\* of the third pass in the text of the second, holds a position of a marker
\* made before.
NoRematch(text, flags) ==
    LET text2 == NakedPass(text, 1)
        flags2 == NakedFlags(text, flags, 1)
    IN  /\ \A i \in 1..Len(text) :
              LET m == NakedMatch(text, i)
              IN  m.end # 0 => \A j \in i..(m.end - 1) : ~flags[j]
        /\ \A i \in 1..Len(text2) :
              LET m == SargaMatch(text2, i)
              IN  m.end # 0 => \A j \in i..(m.end - 1) : ~flags2[j]

\* The positions of the citation link at j of a rendered text, from the
\* bracket that opens its label to the end of its address.
LinkSpan(text, j) ==
    LET k == PathPartEnd(text, j + 1)
        s == PathPartEnd(text, k + 1)
        v == PathPartEnd(text, s + 1)
    IN  (j - 5 - (k - j - 1) - (s - k - 1) - (v - s - 1))..v

\* C33: the naked and the chapter-only pass match no text of a marker made
\* by an earlier pass, and the citation links of the rendered text do not
\* overlap.
C33_ConvertedOnce ==
    [][Rendering =>
        /\ NoRematch(BracketPass(RenderedContent, 1), BracketFlags(RenderedContent, 1))
        /\ NoRematch(BracketPassFirstCopy(RenderedContent, 1),
                     BracketFlags(RenderedContent, 1))
        /\ \A j1, j2 \in Links(processedContent') :
              j1 # j2 => LinkSpan(processedContent', j1)
                            \cap LinkSpan(processedContent', j2) = {}]_vars

C33_Witness ==
    /\ RenderedContent = <<"[", "[", "Verse", ":", " ", "Bala", " ", "Kanda",
                           " ", "4", ":", "5", "]", "]">>
    /\ Cardinality(Links(processedContent)) = 1

\* The canto of index k: the k-th name for k in 1..7, the first otherwise.
CantoOfIndex(digits) ==
    IF Number(digits) \in 1..Len(kandaList)
    THEN <<kandaList[Number(digits)], " ", "Kanda">>
    ELSE <<kandaList[1], " ", "Kanda">>

\* C34: a bracketed citation without a canto name and with a canto index
\* "Kanda k" is rendered with the canto of index k, and with chapter and
\* verse taken from the integers of the inner text other than the index.
C34_IndexedCanto ==
    [][Rendering =>
        LET inners == BracketContents(RenderedContent, 1)
        IN  \A n \in 1..Len(inners) :
                LET inner == inners[n]
                    index == kandaIndexMatch(inner)
                    after == SkipDigits(inner, index)
                    k == SubSeq(inner, index, after - 1)
                    others == allNumbers(SubSeq(inner, 1, index - 1), 1)
                                \o allNumbers(SubSeq(inner, after, Len(inner)), 1)
                IN  (foundKanda(inner) = 0 /\ index # 0) =>
                        \E c \in Citations(processedContent') :
                            /\ c.kanda = CantoOfIndex(k)
                            /\ Len(others) >= 1 => c.sarga = others[1]
                            /\ Len(others) >= 2 => c.shloka = others[2]]_vars

\* C35: when a plan or a plan_update record of a stream is decoded, the
\* message of the stream changes in its plan and its cursor only, and no
\* other message changes.
C35_PlanFrame ==
    [][\A l \in loops : \A e \in {PlanEvent(PlanSFS, 0), PlanUpdateEvent(1)} :
        ReadChunk(l, <<e, NL>>) =>
            \A i \in 1..Len(messages) :
                IF messages[i].id = l.id
                THEN messages'[i] =
                        [messages[i] EXCEPT
                            !.plan = messages'[i].plan,
                            !.planCompletedIndex = messages'[i].planCompletedIndex]
                ELSE messages'[i] = messages[i]]_vars

\* C36: when every fetch settles, the loading flag of the detail view is
\* always cleared again, and the reply of a failed lookup leaves the view
\* closed, so that the citation can be clicked again.
C36_LeavesLoading ==
    /\ isLoadingVerse ~> ~isLoadingVerse
    /\ [][\A k \in lookups : VerseReplyError(k) => ~ModalShown']_vars

\* A lookup failed and the lookup started by the next click has returned its
\* verse.
C36_Witness ==
    /\ alerts = 1
    /\ ~isLoadingVerse
    /\ lookups = {}
    /\ selectedVerse # NoVerse
    /\ selectedVerse.translation # <<>>

\* C37: after every operation on the sessions, the list a mount would read
\* from the store is the session list in memory; a deleted session is not in
\* the store.
C37_StoreEqualsList == LoadSessions(storage) = sessions

\* C38: no session holds a message of a conversation older than itself: the
\* messages of a session that was deleted while active are in no session
\* created afterwards. (The id of a session and the id of the message of a
\* stream are the times of their creation.)
C38_DeletedStaysDeleted ==
    \A i \in 1..Len(sessions) :
        \A j \in 1..Len(sessions[i].messages) :
            LET m == sessions[i].messages[j]
            IN  m.id # NoId => m.id >= sessions[i].id

====
